---------------------------- MODULE Spec2Model ----------------------------
(***************************************************************************)
(* Model of the quote scrapers: BaseScraper.get_page with the retry policy *)
(* mounted on its session, the per-page extractors (scrape_page and its    *)
(* siblings), pagination discovery, and the thread-pool harvest operations *)
(* (scrape_many_pages, scrape_authors, scrape_topics).                     *)
(*                                                                         *)
(* Two specifications share the variables.  SpecFetch runs one get_page    *)
(* call attempt by attempt against a server that answers each attempt with *)
(* a status or a network error.  SpecHarvest runs one harvest operation:   *)
(* there a get_page call is one in-flight interval that ends with the body *)
(* or with the failure value '', the two results SpecFetch shows possible. *)
(***************************************************************************)
EXTENDS Integers, Sequences, FiniteSets, TLC

VARIABLES
    \* ---- one get_page call (SpecFetch) ----
    impl,        \* which BaseScraper: "root" (src/base_scraper.py) or "python" (src/python/base_scraper.py)
    scheme,      \* URL scheme of the fetched url: "https" or "http"
    fpc,         \* "idle" | "sending" (a request is in flight) | "returned" | "raised"
    history,     \* responses received so far, one per request sent
    delays,      \* seconds slept before each retry, in order
    result,      \* value get_page returned ("none" until it returns)
    \* ---- one harvest operation (SpecHarvest) ----
    op,          \* the harvest operation called
    urls,        \* number of listing roots passed (urls, or letters of the index)
    start_page,  \* argument start_page
    end_page,    \* argument end_page
    site,        \* the source: pages per listing root and records per page
    mpc,         \* position of the calling thread
    root,        \* index of the root the calling thread is expanding
    nextp,       \* next page number the page generator will yield
    lastp,       \* last page number the page generator will yield
    found,       \* num_of_pages returned by each discovery so far, in call order
    futures,     \* the futures list: one entry per submitted work item
    quotes,      \* the accumulator the harvest returns
    discovering, \* TRUE while the calling thread's discovery get_page is in flight
    save_arg,    \* the save argument of the harvest call
    errlog,      \* number of "Error fetching page" records the call's get_page's logged
    \* ---- one __find_num_of_pages call (SpecDiscover) ----
    dfetch,      \* what get_page returned for the listing url: "ok" or "fail"
    ddoc,        \* the listing document served
    dpc,         \* "idle" | "called" | "returned" | "raised"
    dnum,        \* the value returned
    \* ---- one _save call (SpecSave) ----
    sname,       \* argument filename, as its dot-separated components
    spc,         \* "idle" | "called" | "returned" | "raised"
    swritten,    \* the files written: name components and serialization
    \* ---- one as_completed loop over submitted futures (SpecCollect) ----
    apc,         \* "idle" | "submitted" | "iterating" | "returned"
    adone,       \* the futures that have completed, in completion order
    apre,        \* futures found finished when as_completed was called, not yet yielded
    alate,       \* waiter.finished_futures: completed since, not yet yielded
    aquotes,     \* the accumulator
    \* ---- one generate_page generator (SpecPages) ----
    turl,        \* the url argument
    tpc,         \* "idle" | "created" | "suspended" | "raised"
    ti,          \* the generator's local i
    tyielded,    \* the urls yielded so far
    \* ---- one QuoteGenerator.generate call (SpecGenerate) ----
    max_attempts, min_confidence,   \* arguments
    gpc,             \* "idle" | "loop" | "returned"
    confs,           \* conf of each attempt made, in order
    best_candidate,  \* local best_candidate
    best_conf,       \* local best_conf
    gresult          \* the dict returned

fvars == <<impl, scheme, fpc, history, delays, result>>
hvars == <<op, urls, start_page, end_page, site, mpc, root, nextp, lastp,
           found, futures, quotes, discovering, errlog, save_arg>>
dvars == <<dfetch, ddoc, dpc, dnum>>
svars == <<sname, spc, swritten>>
avars == <<apc, adone, apre, alate, aquotes>>
tvars == <<turl, tpc, ti, tyielded>>
gvars == <<max_attempts, min_confidence, gpc, confs, best_candidate, best_conf, gresult>>
xvars == <<avars, tvars, gvars>>
vars == <<fvars, hvars, dvars, svars, xvars>>

DiscoverIdle ==
    /\ dfetch = "none" /\ dpc = "idle" /\ dnum = 0
    /\ ddoc = [pager |-> FALSE, span |-> FALSE, text |-> <<>>]
CollectIdle == apc = "idle" /\ adone = <<>> /\ apre = {} /\ alate = <<>> /\ aquotes = <<>>
PagesIdle ==
    /\ turl = [host |-> "", path |-> <<>>, slash |-> FALSE, query |-> [param |-> "", value |-> ""]]
    /\ tpc = "idle" /\ ti = 0 /\ tyielded = <<>>
GenerateIdle ==
    /\ max_attempts = 0 /\ min_confidence = 0 /\ gpc = "idle" /\ confs = <<>>
    /\ best_candidate = 0 /\ best_conf = 0
    /\ gresult = [quote |-> 0, confidence |-> 0, accepted |-> FALSE, attempts |-> 0]
OthersIdle == CollectIdle /\ PagesIdle /\ GenerateIdle
SaveIdle == sname = <<>> /\ spc = "idle" /\ swritten = <<>>

Min(a, b) == IF a < b THEN a ELSE b
Max(a, b) == IF a > b THEN a ELSE b

RECURSIVE Pow2(_)
Pow2(n) == IF n <= 0 THEN 1 ELSE 2 * Pow2(n - 1)

(***************************************************************************)
(* BaseScraper.__init__: the retry policy and where it is mounted.         *)
(***************************************************************************)
\* Retry(total=5, ...)
total == 5
\* Retry(..., backoff_factor=5, ...)
backoff_factor == 5

\* Retry(..., status_forcelist=[...]) of each implementation
status_forcelist(i) ==
    IF i = "root" THEN {500, 502, 503, 504} ELSE {400, 500, 502, 503, 504}

\* session.mount("https://", HTTPAdapter(max_retries=retries)): only https
\* urls get the policy; http urls keep the session's default adapter, whose
\* policy is Retry(0, read=False) with no status_forcelist.
MaxRetries(s) == IF s = "https" THEN total ELSE 0
Forcelist(i, s) == IF s = "https" THEN status_forcelist(i) ELSE {}

(***************************************************************************)
(* The server.  Each request is answered by a status (a 200 carries a      *)
(* body, possibly empty) or ends in a network-level error.  Responses      *)
(* carry no Retry-After header and no redirect.                            *)
(***************************************************************************)
ConnectionError == -1   \* connection refused, DNS failure, connect timeout
ReadTimeout == -2       \* no answer within timeout=30
Statuses == {200, 400, 404, 500, 502, 503, 504}
Bodies == {"<html>", ""}
Responses ==
    {[status |-> s, body |-> ""] : s \in (Statuses \ {200}) \cup {ConnectionError, ReadTimeout}}
    \cup {[status |-> 200, body |-> b] : b \in Bodies}

IsNetworkError(r) == r.status < 0

\* Retry.is_retry: a status is retried when the mounted policy lists it
IsRetry(i, s, r) == ~IsNetworkError(r) /\ r.status \in Forcelist(i, s)

\* Retry.increment + is_exhausted: every retried failure takes one from
\* total; the policy is exhausted when the count drops below zero.
IsExhaustedLate(failures, s) == MaxRetries(s) - failures < -1
IsExhausted(failures, s) == MaxRetries(s) - failures < 0

\* Retry.get_backoff_time: no sleep after the first failure, then
\* backoff_factor * 2^(consecutive failures - 1), capped at 120 seconds.
BackoffTimeFlat(failures) ==
    IF failures <= 1 THEN 0 ELSE backoff_factor
BackoffTime(failures) ==
    IF failures <= 1 THEN 0 ELSE Min(120, backoff_factor * Pow2(failures - 1))

\* The exception session.get / raise_for_status ends with for the response
\* that ended the attempts, "none" when the response is returned as it is.
\*   retries exhausted on a listed status -> RetryError
\*   retries exhausted on a network error -> ConnectionError / ReadTimeout
\*   a 4xx or 5xx returned to get_page    -> HTTPError (raise_for_status)
ExceptionOf(i, s, r) ==
    IF IsNetworkError(r)
    THEN (IF r.status = ConnectionError THEN "ConnectionError" ELSE "ReadTimeout")
    ELSE IF IsRetry(i, s, r) THEN "RetryError"
    ELSE IF r.status >= 400 /\ r.status < 600 THEN "HTTPError"
    ELSE "none"

\* except requests.RequestException: the exceptions get_page catches
RequestExceptionNarrow == {"HTTPError"}
RequestException == {"HTTPError", "ConnectionError", "ReadTimeout", "RetryError"}

(***************************************************************************)
(* get_page, one attempt per step.                                         *)
(***************************************************************************)
\* the caller calls get_page(url): the first request goes out
get_page_call ==
    /\ fpc = "idle"
    /\ fpc' = "sending"
    /\ UNCHANGED <<impl, scheme, history, delays, result, hvars, dvars, svars, xvars>>

\* the request in flight is answered by r; the adapter retries it after the
\* backoff sleep, or get_page ends: return page.text, or the exception is
\* caught (return '') or propagates.
get_page_respond(r) ==
    /\ fpc = "sending"
    /\ history' = Append(history, r)
    /\ LET failures == Len(history) + 1
           retried == (IsNetworkError(r) \/ IsRetry(impl, scheme, r))
                      /\ ~IsExhausted(failures, scheme)
           exc == ExceptionOf(impl, scheme, r)
       IN  IF retried
           THEN /\ delays' = Append(delays, BackoffTime(failures))
                /\ UNCHANGED <<fpc, result>>
           ELSE /\ UNCHANGED delays
                /\ IF exc = "none"
                   THEN fpc' = "returned" /\ result' = r.body
                   ELSE IF exc \in RequestException
                   THEN fpc' = "returned" /\ result' = ""
                   ELSE fpc' = "raised" /\ UNCHANGED result
    /\ UNCHANGED <<impl, scheme, hvars, dvars, svars, xvars>>

HarvestIdle ==
    /\ op = "none" /\ urls = 0 /\ start_page = 0 /\ end_page = 0
    /\ site = [pages |-> <<>>, recs |-> 0]
    /\ mpc = "idle" /\ root = 0 /\ nextp = 0 /\ lastp = 0 /\ found = <<>>
    /\ futures = <<>> /\ quotes = <<>> /\ discovering = FALSE /\ errlog = 0
    /\ save_arg = FALSE

InitFetch ==
    /\ impl \in {"root", "python"}
    /\ scheme \in {"https", "http"}
    /\ fpc = "idle"
    /\ history = <<>>
    /\ delays = <<>>
    /\ result = "none"
    /\ HarvestIdle /\ DiscoverIdle /\ SaveIdle /\ OthersIdle

NextFetch ==
    \/ get_page_call
    \/ \E r \in Responses : get_page_respond(r)

SpecFetch == InitFetch /\ [][NextFetch]_vars

(***************************************************************************)
(* The harvest operations.                                                 *)
(***************************************************************************)
\* bounds of the model
MaxUrls == 2        \* listing roots passed to one harvest
MaxPages == 2       \* pages of one listing
MaxRecs == 2        \* records on one page
MaxStart == 2       \* largest start_page tried
MaxEnd == 3         \* largest end_page tried
MaxItems == 3       \* work items one harvest can come to submit
\* ThreadPoolExecutor(max_workers=10), scaled down to keep the model finite
max_workers == 2

Ops == {"az_many", "az_authors", "az_topics", "gr_many", "fq_many"}
\* operations whose page range comes from the arguments start_page, end_page
RangeOps == {"az_many", "gr_many"}
\* operations that call __find_num_of_pages for each root
DiscoverOps == {"az_many", "az_authors"}

\* number of records page p of root r holds (a page past the last one is
\* served without any record)
PageRecs(r, p) == IF p \in 1..site.pages[r] THEN site.recs ELSE 0

Record(r, p, k) == [root |-> r, page |-> p, quote |-> k]
\* {'quote': '', 'author': '', 'tags': '', 'likes': None}
EmptyRecord(r, p) == Record(r, p, 0)
Extracted(r, p) == [k \in 1..PageRecs(r, p) |-> Record(r, p, k)]

Returned(recs) == [exc |-> FALSE, recs |-> recs]
Raised == [exc |-> TRUE, recs |-> <<>>]

\* AzQuoteScraper.scrape_page / GoodReadsScraper.scrape_page: get_page,
\* parse_page, one record per quote block.  '' parses to a document without
\* blocks; a block that lacks an expected element makes a getter raise
\* AttributeError.
scrape_page_blocks(r, p, fetch) ==
    CASE fetch = "fail" -> Returned(<<>>)
      [] fetch = "ok" -> Returned(Extracted(r, p))
      [] fetch = "malformed" -> Raised

\* FamousQuotesScraper.scrape_page (src/python): soup.find(...) gives None
\* for the document of '', get_quote and get_author catch the
\* AttributeError and return [""], get_tags returns "", and the zip builds
\* one record of empty values.
scrape_page_fq(r, p, fetch) ==
    CASE fetch = "fail" -> Returned(<<EmptyRecord(r, p)>>)
      [] fetch = "ok" -> Returned(Extracted(r, p))
      [] fetch = "malformed" -> Raised

\* AzQuoteScraper.scrape_authors_page / scrape_topics_by_letter:
\* soup.find('tbody') / soup.find('section', ...) is None for the document
\* of '', and None.find_all raises AttributeError.
scrape_index_page(r, p, fetch) ==
    CASE fetch = "fail" -> Raised
      [] fetch = "ok" -> Returned(Extracted(r, p))
      [] fetch = "malformed" -> Raised

\* the callable each harvest operation submits to the pool
Task(o, r, p, fetch) ==
    CASE o \in {"az_many", "gr_many"} -> scrape_page_blocks(r, p, fetch)
      [] o = "fq_many" -> scrape_page_fq(r, p, fetch)
      [] o \in {"az_authors", "az_topics"} -> scrape_index_page(r, p, fetch)

FetchOutcomes == {"fail", "ok", "malformed"}
\* get_page's except branch: logging.error(f"Error fetching page: {e}")
Logged(fetch) == IF fetch = "fail" THEN 1 ELSE 0

\* AzQuoteScraper.__find_num_of_pages, given what get_page returned and the
\* pager of the listing page: 0 stands for the AttributeError raised when
\* the pager holds no span.
Pagers == {"none", "num", "text", "nospan"}
find_num_of_pages(r, fetch, pager) ==
    IF fetch = "fail" \/ pager = "none" THEN 1
    ELSE IF pager = "nospan" THEN 0
    ELSE IF pager = "num" THEN site.pages[r]
    ELSE 1

\* AzQuoteScraper.__generate_pages: end_page clamped to the discovered count
ClampedEnd(num) == IF end_page > num THEN num ELSE end_page

Running == {i \in 1..Len(futures) : futures[i].st = "running"}
Queued == {i \in 1..Len(futures) : futures[i].st = "queued"}
AllDone == \A i \in 1..Len(futures) : futures[i].st = "done"
\* get_page calls in flight: the pool workers' and the calling thread's
InFlight == Cardinality(Running) + (IF discovering THEN 1 ELSE 0)

\* for letter / url in ...: the next root, or the end of the submit loop
expand_root ==
    /\ mpc = "expand"
    /\ IF root > urls
       THEN /\ mpc' = "collect"
            /\ UNCHANGED <<nextp, lastp, discovering>>
       ELSE IF op \in DiscoverOps
       THEN /\ mpc' = "discover"
            /\ discovering' = TRUE
            /\ UNCHANGED <<nextp, lastp>>
       ELSE /\ mpc' = "submit"
            /\ nextp' = (IF op = "gr_many" THEN start_page ELSE 1)
            /\ lastp' = (IF op = "gr_many" THEN end_page ELSE 1)
            /\ UNCHANGED discovering
    /\ UNCHANGED <<save_arg, errlog, op, urls, start_page, end_page, site, root, found, futures, quotes, fvars, dvars, svars, xvars>>

\* __find_num_of_pages returns in the calling thread (or raises)
discover_end(fetch, pager) ==
    /\ mpc = "discover"
    /\ discovering' = FALSE
    /\ LET num == find_num_of_pages(root, fetch, pager)
       IN  IF num = 0
           THEN mpc' = "exit_exc" /\ UNCHANGED <<nextp, lastp, found>>
           ELSE /\ mpc' = "submit"
                /\ found' = Append(found, num)
                /\ nextp' = (IF op = "az_many" THEN start_page ELSE 1)
                /\ lastp' = (IF op = "az_many" THEN ClampedEnd(num) ELSE num)
    /\ errlog' = errlog + Logged(fetch)
    /\ UNCHANGED <<save_arg, op, urls, start_page, end_page, site, root, futures, quotes, fvars, dvars, svars, xvars>>

\* a submit loop that asks for the page count again after every submission
submit_rediscover ==
    /\ mpc = "submit"
    /\ IF nextp <= lastp
       THEN /\ futures' = Append(futures,
                  [root |-> root, page |-> nextp, st |-> "queued", calls |-> 0,
                   fetch |-> "none", out |-> Returned(<<>>), taken |-> FALSE])
            /\ nextp' = nextp + 1
            /\ mpc' = IF op \in DiscoverOps /\ Len(found) <= urls THEN "discover" ELSE mpc
            /\ discovering' = (op \in DiscoverOps /\ Len(found) <= urls)
            /\ UNCHANGED root
       ELSE /\ mpc' = "expand"
            /\ root' = root + 1
            /\ UNCHANGED <<futures, nextp, discovering>>
    /\ UNCHANGED <<save_arg, errlog, op, urls, start_page, end_page, site, lastp, found, quotes, fvars, dvars, svars, xvars>>

\* future = executor.submit(...); futures.append(future)
submit ==
    /\ mpc = "submit"
    /\ IF nextp <= lastp
       THEN /\ futures' = Append(futures,
                  [root |-> root, page |-> nextp, st |-> "queued", calls |-> 0,
                   fetch |-> "none", out |-> Returned(<<>>), taken |-> FALSE])
            /\ nextp' = nextp + 1
            /\ UNCHANGED <<mpc, root>>
       ELSE /\ mpc' = "expand"
            /\ root' = root + 1
            /\ UNCHANGED <<futures, nextp>>
    /\ UNCHANGED <<save_arg, errlog, op, urls, start_page, end_page, site, lastp, found, quotes, discovering, fvars, dvars, svars, xvars>>

\* a free worker takes the oldest queued work item and calls get_page
worker_start(i) ==
    /\ i \in Queued
    /\ \A j \in Queued : i <= j
    /\ Cardinality(Running) < max_workers
    /\ futures' = [futures EXCEPT ![i].st = "running", ![i].calls = @ + 1]
    /\ UNCHANGED <<save_arg, errlog, op, urls, start_page, end_page, site, mpc, root, nextp, lastp,
                   found, quotes, discovering, fvars, dvars, svars, xvars>>

\* a scheduler that puts a work item whose fetch failed back on the queue
worker_finish_requeue(i, fetch) ==
    /\ i \in Running
    /\ futures' = [futures EXCEPT
                      ![i].st = IF fetch = "fail" /\ futures[i].calls < 2 THEN "queued" ELSE "done",
                      ![i].fetch = fetch,
                      ![i].out = Task(op, futures[i].root, futures[i].page, fetch)]
    /\ errlog' = errlog + Logged(fetch)
    /\ UNCHANGED <<save_arg, op, urls, start_page, end_page, site, mpc, root, nextp, lastp,
                   found, quotes, discovering, fvars, dvars, svars, xvars>>

\* a callable that appends its records to the shared list itself
worker_finish_appends(i, fetch) ==
    /\ i \in Running
    /\ futures' = [futures EXCEPT ![i].st = "done", ![i].fetch = fetch,
                      ![i].out = Task(op, futures[i].root, futures[i].page, fetch)]
    /\ quotes' = quotes \o Task(op, futures[i].root, futures[i].page, fetch).recs
    /\ errlog' = errlog + Logged(fetch)
    /\ UNCHANGED <<save_arg, op, urls, start_page, end_page, site, mpc, root, nextp, lastp,
                   found, discovering, fvars, dvars, svars, xvars>>

\* a per-page callable run with save=True: the worker writes a file
worker_finish_saves(i, fetch) ==
    /\ i \in Running
    /\ futures' = [futures EXCEPT ![i].st = "done", ![i].fetch = fetch,
                      ![i].out = Task(op, futures[i].root, futures[i].page, fetch)]
    /\ errlog' = errlog + Logged(fetch)
    /\ swritten' = Append(swritten, [name |-> <<"authors", "_now", ".", "pkl">>, format |-> "pickle"])
    /\ UNCHANGED <<save_arg, op, urls, start_page, end_page, site, mpc, root, nextp, lastp,
                   found, quotes, discovering, fvars, dvars, sname, spc, xvars>>

\* get_page returns in the worker, the callable runs to its end
worker_finish(i, fetch) ==
    /\ i \in Running
    /\ futures' = [futures EXCEPT ![i].st = "done", ![i].fetch = fetch,
                      ![i].out = Task(op, futures[i].root, futures[i].page, fetch)]
    /\ errlog' = errlog + Logged(fetch)
    /\ UNCHANGED <<save_arg, op, urls, start_page, end_page, site, mpc, root, nextp, lastp,
                   found, quotes, discovering, fvars, dvars, svars, xvars>>

\* a loop that keeps the last result only: quotes = future.result()
collect_overwrite ==
    /\ mpc = "collect"
    /\ IF \A i \in 1..Len(futures) : futures[i].taken
       THEN /\ mpc' = "exit"
            /\ UNCHANGED <<futures, quotes>>
       ELSE \E i \in 1..Len(futures) :
            /\ futures[i].st = "done"
            /\ ~futures[i].taken
            /\ futures' = [futures EXCEPT ![i].taken = TRUE]
            /\ IF futures[i].out.exc
               THEN mpc' = "exit_exc" /\ UNCHANGED quotes
               ELSE mpc' = mpc /\ quotes' = futures[i].out.recs
    /\ UNCHANGED <<save_arg, errlog, op, urls, start_page, end_page, site, root, nextp, lastp,
                   found, discovering, fvars, dvars, svars, xvars>>

\* for future in as_completed(futures): quotes.extend(future.result())
collect ==
    /\ mpc = "collect"
    /\ IF \A i \in 1..Len(futures) : futures[i].taken
       THEN /\ mpc' = "exit"
            /\ UNCHANGED <<futures, quotes>>
       ELSE \E i \in 1..Len(futures) :
            /\ futures[i].st = "done"
            /\ ~futures[i].taken
            /\ futures' = [futures EXCEPT ![i].taken = TRUE]
            /\ IF futures[i].out.exc
               THEN mpc' = "exit_exc" /\ UNCHANGED quotes
               ELSE mpc' = mpc /\ quotes' = quotes \o futures[i].out.recs
    /\ UNCHANGED <<save_arg, errlog, op, urls, start_page, end_page, site, root, nextp, lastp,
                   found, discovering, fvars, dvars, svars, xvars>>

\* the end of the with block: ThreadPoolExecutor.__exit__ is
\* shutdown(wait=True), on the normal path and on the exception path
ExitReadyNoWait == TRUE
ExitReady == AllDone
executor_exit ==
    /\ mpc \in {"exit", "exit_exc"}
    /\ ExitReady
    /\ mpc' = (IF mpc = "exit" THEN (IF save_arg THEN "save" ELSE "returned") ELSE "raised")
    /\ UNCHANGED <<save_arg, errlog, op, urls, start_page, end_page, site, root, nextp, lastp,
                   found, futures, quotes, discovering, fvars, dvars, svars, xvars>>

RECURSIVE SumPages(_, _)
SumPages(pages, n) == IF n = 0 THEN 0 ELSE pages[n] + SumPages(pages, n - 1)

\* the most work items the call can come to submit against this source
ItemsAtMost ==
    IF op = "gr_many" THEN urls * Max(0, end_page - start_page + 1)
    ELSE IF op \in DiscoverOps THEN SumPages(site.pages, urls)
    ELSE urls

FetchIdle ==
    /\ impl = "root" /\ scheme = "https" /\ fpc = "idle"
    /\ history = <<>> /\ delays = <<>> /\ result = "none"

InitHarvest ==
    /\ FetchIdle /\ DiscoverIdle /\ SaveIdle /\ OthersIdle
    /\ op \in Ops
    /\ urls \in 1..MaxUrls
    /\ site \in [pages : [1..urls -> 1..MaxPages], recs : 0..MaxRecs]
    /\ start_page \in (IF op \in RangeOps THEN 1..MaxStart ELSE {1})
    /\ end_page \in (IF op \in RangeOps THEN 1..MaxEnd ELSE {1})
    /\ ItemsAtMost <= MaxItems
    /\ mpc = "expand" /\ root = 1 /\ nextp = 0 /\ lastp = 0 /\ found = <<>>
    /\ futures = <<>> /\ quotes = <<>> /\ discovering = FALSE /\ errlog = 0
    /\ save_arg = FALSE

NextHarvest ==
    \/ expand_root
    \/ \E f \in {"fail", "ok"}, pg \in Pagers : discover_end(f, pg)
    \/ submit
    \/ \E i \in 1..Len(futures) : worker_start(i)
    \/ \E i \in 1..Len(futures), f \in FetchOutcomes : worker_finish(i, f)
    \/ collect
    \/ executor_exit

SpecHarvest == InitHarvest /\ [][NextHarvest]_vars

(***************************************************************************)
(* AzQuoteScraper.__find_num_of_pages on one listing url.  The listing     *)
(* document is what matters to the function: whether it holds a            *)
(* <div class="pager">, whether that div holds a <span>, and the span's    *)
(* text, a string over a small alphabet.                                   *)
(***************************************************************************)
MaxText == 4

Digits == {"0", "3"}
Chars == Digits \cup {"-", " ", "x"}
Texts == UNION {[1..n -> Chars] : n \in 0..MaxText}

NoPager == [pager |-> FALSE, span |-> FALSE, text |-> <<>>]
NoSpan == [pager |-> TRUE, span |-> FALSE, text |-> <<>>]
Docs == {NoPager, NoSpan} \cup {[pager |-> TRUE, span |-> TRUE, text |-> t] : t \in Texts}

\* the document the parser is given: get_page returns '' for a failed
\* fetch, and '' parses to a document with no element at all
parse_page_stale(fetch, doc) == doc
parse_page(fetch, doc) == IF fetch = "fail" THEN NoPager ELSE doc

\* text.split(' ')[-1]: what follows the last space, the whole text if none
RECURSIVE split_last(_)
split_last(t) ==
    IF t = <<>> \/ t[Len(t)] = " " THEN <<>>
    ELSE Append(split_last(SubSeq(t, 1, Len(t) - 1)), t[Len(t)])

\* int(token): an optional sign and at least one digit, else ValueError
Unsigned(tok) == IF tok # <<>> /\ tok[1] = "-" THEN Tail(tok) ELSE tok
IsInt(tok) == Unsigned(tok) # <<>> /\ \A k \in 1..Len(Unsigned(tok)) : Unsigned(tok)[k] \in Digits
DigitVal(c) == IF c = "3" THEN 3 ELSE 0
RECURSIVE Decimal(_)
Decimal(ds) ==
    IF ds = <<>> THEN 0
    ELSE 10 * Decimal(SubSeq(ds, 1, Len(ds) - 1)) + DigitVal(ds[Len(ds)])
int(tok) == IF tok # <<>> /\ tok[1] = "-" THEN 0 - Decimal(Tail(tok)) ELSE Decimal(tok)

\* the function's outcome: exc is the AttributeError of None.get_text(),
\* which the except ValueError clause does not catch
num_of_pages(fetch, doc) ==
    LET soup == parse_page(fetch, doc) IN
    IF ~soup.pager THEN [exc |-> FALSE, num |-> 1]
    ELSE IF ~soup.span THEN [exc |-> TRUE, num |-> 0]
    ELSE IF IsInt(split_last(soup.text))
         THEN [exc |-> FALSE, num |-> int(split_last(soup.text))]
         ELSE [exc |-> FALSE, num |-> 1]

\* response = self.get_page(url)
discover_get_page(fetch) ==
    /\ dpc = "called"
    /\ dfetch' = fetch
    /\ dpc' = "fetched"
    /\ UNCHANGED <<ddoc, dnum, fvars, hvars, svars, xvars>>

\* the rest of the body, to the return or the exception
discover_parse ==
    /\ dpc = "fetched"
    /\ LET r == num_of_pages(dfetch, ddoc) IN
          /\ dpc' = IF r.exc THEN "raised" ELSE "returned"
          /\ dnum' = r.num
    /\ UNCHANGED <<dfetch, ddoc, fvars, hvars, svars, xvars>>

InitDiscover ==
    /\ FetchIdle /\ HarvestIdle /\ SaveIdle /\ OthersIdle
    /\ ddoc \in Docs
    /\ dfetch = "none" /\ dpc = "called" /\ dnum = 0

NextDiscover ==
    \/ \E f \in {"fail", "ok"} : discover_get_page(f)
    \/ discover_parse

SpecDiscover == InitDiscover /\ [][NextDiscover]_vars

(***************************************************************************)
(* BaseScraper._save on one filename.  A filename is a string of words     *)
(* from a small vocabulary, "." among them; no word other than "json"      *)
(* ("pkl") and no run of words across a boundary spells json (pkl), so the *)
(* substring tests of the code are membership tests here.                  *)
(***************************************************************************)
MaxName == 4

Words == {"json", "pkl", "txt", "quotes", "."}
Filenames == UNION {[1..n -> Words] : n \in 1..MaxName}

\* filename.split('.')[-1]
RECURSIVE ext(_)
ext(name) ==
    IF name = <<>> \/ name[Len(name)] = "." THEN <<>>
    ELSE Append(ext(SubSeq(name, 1, Len(name) - 1)), name[Len(name)])

\* '.'.join(filename.split('.')[:-1])
file(name) ==
    IF Len(ext(name)) = Len(name) THEN <<>>
    ELSE SubSeq(name, 1, Len(name) - Len(ext(name)) - 1)

\* f'{file}_{now}.{ext}'; the timestamp is digits and underscores
stamped(name) == file(name) \o <<"_now", ".">> \o ext(name)

\* 'json' in filename, 'pkl' in filename
In(word, name) == \E k \in 1..Len(name) : name[k] = word

save ==
    /\ spc = "called"
    /\ IF In("json", stamped(sname))
       THEN /\ swritten' = Append(swritten, [name |-> stamped(sname), format |-> "json"])
            /\ spc' = "returned"
       ELSE IF In("pkl", stamped(sname))
       THEN /\ swritten' = Append(swritten, [name |-> stamped(sname), format |-> "pickle"])
            /\ spc' = "returned"
       ELSE /\ swritten' = swritten
            /\ spc' = "raised"
    /\ UNCHANGED <<sname, fvars, hvars, dvars, xvars>>

InitSave ==
    /\ FetchIdle /\ HarvestIdle /\ DiscoverIdle /\ OthersIdle
    /\ sname \in Filenames
    /\ spc = "called" /\ swritten = <<>>

NextSave == save

SpecSave == InitSave /\ [][NextSave]_vars

(***************************************************************************)
(* The harvest operations called with a save argument: after the with      *)
(* block, `if save: self._save(quotes, savepath)`, then `return quotes`.   *)
(***************************************************************************)
MaxSaveItems == 2

\* 'quotes.pkl', 'quotes_qr.pkl', 'quotes_fq.pkl', 'authors_az.pkl',
\* 'topics_az.pkl': a stem without json or pkl and the extension pkl
savepath == <<"quotes", ".", "pkl">>

\* what open() / dump() meet: the file is written, open() raises OSError
\* (no file), or dump() raises after the file was created
SaveOutcomes == {"ok", "open_fails", "dump_fails"}

\* if save == True: self._save(quotes, savepath); return quotes
harvest_save(io) ==
    /\ mpc = "save"
    /\ sname' = savepath
    /\ LET name == stamped(savepath)
           format == IF In("json", name) THEN "json"
                     ELSE IF In("pkl", name) THEN "pickle" ELSE "none"
       IN  /\ swritten' = IF format # "none" /\ io # "open_fails"
                          THEN Append(swritten, [name |-> name, format |-> format])
                          ELSE swritten
           /\ spc' = IF format # "none" /\ io = "ok" THEN "returned" ELSE "raised"
           /\ mpc' = IF format # "none" /\ io = "ok" THEN "returned" ELSE "raised"
    /\ UNCHANGED <<save_arg, errlog, op, urls, start_page, end_page, site, root, nextp, lastp,
                   found, futures, quotes, discovering, fvars, dvars, xvars>>

InitHarvestSave ==
    /\ FetchIdle /\ DiscoverIdle /\ SaveIdle /\ OthersIdle
    /\ op \in Ops
    /\ urls \in 1..MaxUrls
    /\ site \in [pages : [1..urls -> 1..MaxPages], recs : 0..MaxRecs]
    /\ start_page \in (IF op \in RangeOps THEN 1..MaxStart ELSE {1})
    /\ end_page \in (IF op \in RangeOps THEN 1..MaxEnd ELSE {1})
    /\ ItemsAtMost <= MaxSaveItems
    /\ mpc = "expand" /\ root = 1 /\ nextp = 0 /\ lastp = 0 /\ found = <<>>
    /\ futures = <<>> /\ quotes = <<>> /\ discovering = FALSE /\ errlog = 0
    /\ save_arg \in BOOLEAN

NextHarvestSave ==
    \/ NextHarvest
    \/ \E io \in SaveOutcomes : harvest_save(io)

SpecHarvestSave == InitHarvestSave /\ [][NextHarvestSave]_vars

(***************************************************************************)
(* The aggregation loop of the harvest operations,                         *)
(*     for future in as_completed(futures): quotes.extend(future.result()) *)
(* over futures already submitted, with the order as_completed yields in:  *)
(* first the futures it finds finished when it is called, taken from a     *)
(* set, then the others as they complete.                                  *)
(***************************************************************************)
MaxFutures == 3
MaxResult == 2

Submitted == 1..MaxFutures
\* future.result(): the records of work item i
result_of(i) == [k \in 1..MaxResult |-> [item |-> i, rec |-> k]]

Completed == {adone[k] : k \in 1..Len(adone)}
YieldedSet == {aquotes[k].item : k \in 1..Len(aquotes)}

\* a worker completes the callable of future i; once as_completed has
\* installed its waiter the future is added to waiter.finished_futures
complete(i) ==
    /\ apc \in {"submitted", "iterating"}
    /\ i \in Submitted \ Completed
    /\ adone' = Append(adone, i)
    /\ alate' = IF apc = "iterating" THEN Append(alate, i) ELSE alate
    /\ UNCHANGED <<apc, apre, aquotes, fvars, hvars, dvars, svars, tvars, gvars>>

\* the for loop calls as_completed(futures): finished = set(f for f in fs
\* if f is finished)
as_completed_call ==
    /\ apc = "submitted"
    /\ apc' = "iterating"
    /\ apre' = Completed
    /\ UNCHANGED <<adone, alate, aquotes, fvars, hvars, dvars, svars, tvars, gvars>>

\* yield from list(finished): the iteration order of a set of futures is
\* any order; the loop body extends the accumulator
yield_finished(i) ==
    /\ apc = "iterating"
    /\ i \in apre
    /\ apre' = apre \ {i}
    /\ aquotes' = aquotes \o result_of(i)
    /\ UNCHANGED <<apc, adone, alate, fvars, hvars, dvars, svars, tvars, gvars>>

\* while pending: the waiter's finished_futures are yielded in the order
\* they were added
yield_completed ==
    /\ apc = "iterating"
    /\ apre = {}
    /\ alate # <<>>
    /\ alate' = Tail(alate)
    /\ aquotes' = aquotes \o result_of(Head(alate))
    /\ UNCHANGED <<apc, adone, apre, fvars, hvars, dvars, svars, tvars, gvars>>

\* every future was yielded: the loop ends
as_completed_end ==
    /\ apc = "iterating"
    /\ YieldedSet = Submitted
    /\ apc' = "returned"
    /\ UNCHANGED <<adone, apre, alate, aquotes, fvars, hvars, dvars, svars, tvars, gvars>>

InitCollect ==
    /\ FetchIdle /\ HarvestIdle /\ DiscoverIdle /\ SaveIdle /\ PagesIdle /\ GenerateIdle
    /\ apc = "submitted" /\ adone = <<>> /\ apre = {} /\ alate = <<>> /\ aquotes = <<>>

NextCollect ==
    \/ \E i \in Submitted : complete(i)
    \/ as_completed_call
    \/ \E i \in Submitted : yield_finished(i)
    \/ yield_completed
    \/ as_completed_end

SpecCollect == InitCollect /\ [][NextCollect]_vars

(***************************************************************************)
(* topics_generator.generate_page.  A url is its host word, its path       *)
(* segments, whether the path ends with "/", and its query.                *)
(***************************************************************************)
MaxPath == 2
MaxYield == 3

Hosts == {"goodreads", "azquotes", "other"}
Segments == {"quotes", "love", "goodreads"}
NoQuery == [param |-> "", value |-> ""]
Queries == {NoQuery, [param |-> "page", value |-> "3"]}
Urls ==
    {[host |-> h, path |-> pth, slash |-> sl, query |-> q] :
        h \in Hosts, pth \in UNION {[1..n -> Segments] : n \in 0..MaxPath},
        sl \in BOOLEAN, q \in Queries}

\* str(i)
str(i) == <<"1", "2", "3", "4", "5", "6", "7", "8">>[i]

\* 'goodreads' in url, 'azquotes' in url: a substring test on the whole url
InUrl(word, url) == url.host = word \/ \E k \in 1..Len(url.path) : url.path[k] = word

\* urllib.parse.urljoin(base, ref) for the two references generate_page
\* passes: "?param=" keeps the path of base and replaces its query; a bare
\* segment replaces what follows the last "/" of the path of base, and the
\* query of base is dropped
urljoin_query(base, param) == [base EXCEPT !.query = [param |-> param, value |-> ""]]
urljoin_segment(base, segment) ==
    [base EXCEPT
        !.path = IF base.path = <<>> \/ base.slash
                 THEN Append(base.path, segment)
                 ELSE Append(SubSeq(base.path, 1, Len(base.path) - 1), segment),
        !.slash = FALSE,
        !.query = NoQuery]

base_pagination(url) ==
    IF InUrl("goodreads", url) THEN "page"
    ELSE IF InUrl("azquotes", url) THEN "p"
    ELSE "none"
base_url(url) == urljoin_query(url, base_pagination(url))

\* next() on the generator: the first call runs the body from its top, to
\* the raise or to the first yield; a later call resumes after the yield
next_page ==
    /\ tpc \in {"created", "suspended"}
    /\ Len(tyielded) < MaxYield
    /\ IF tpc = "created" /\ base_pagination(turl) = "none"
       THEN /\ tpc' = "raised"
            /\ UNCHANGED <<ti, tyielded>>
       ELSE /\ tpc' = "suspended"
            /\ ti' = ti + 1
            /\ tyielded' = Append(tyielded, urljoin_segment(base_url(turl), str(ti + 1)))
    /\ UNCHANGED <<turl, fvars, hvars, dvars, svars, avars, gvars>>

InitPages ==
    /\ FetchIdle /\ HarvestIdle /\ DiscoverIdle /\ SaveIdle /\ CollectIdle /\ GenerateIdle
    /\ turl \in Urls
    /\ tpc = "created" /\ ti = 0 /\ tyielded = <<>>

NextPages == next_page

SpecPages == InitPages /\ [][NextPages]_vars

(***************************************************************************)
(* QuoteGenerator.generate.  A confidence is a level 0..MaxLevel (the      *)
(* float level / MaxLevel); the quote generated by attempt k is written k, *)
(* and 0 stands for None.                                                  *)
(***************************************************************************)
MaxAttempts == 3
MaxLevel == 3

Levels == 0..MaxLevel
None == 0
NoResult == [quote |-> None, confidence |-> 0, accepted |-> FALSE, attempts |-> 0]

\* if conf >= min_confidence
AcceptsStrictly(conf) == conf > min_confidence
Accepts(conf) == conf >= min_confidence

\* one pass of `for attempt in range(1, max_attempts + 1)`: generate a
\* quote, classify it with confidence conf, return it or remember the best
generate_attempt(conf) ==
    /\ gpc = "loop"
    /\ Len(confs) < max_attempts
    /\ confs' = Append(confs, conf)
    /\ LET attempt == Len(confs) + 1
           quote == attempt
       IN  IF Accepts(conf)
           THEN /\ gresult' = [quote |-> quote, confidence |-> conf,
                               accepted |-> TRUE, attempts |-> attempt]
                /\ gpc' = "returned"
                /\ UNCHANGED <<best_candidate, best_conf>>
           ELSE /\ IF conf > best_conf
                   THEN best_candidate' = quote /\ best_conf' = conf
                   ELSE UNCHANGED <<best_candidate, best_conf>>
                /\ UNCHANGED <<gresult, gpc>>
    /\ UNCHANGED <<max_attempts, min_confidence, fvars, hvars, dvars, svars, avars, tvars>>

\* the range is used up: return the best candidate, accepted False
generate_return ==
    /\ gpc = "loop"
    /\ Len(confs) >= max_attempts
    /\ gresult' = [quote |-> best_candidate, confidence |-> best_conf,
                   accepted |-> FALSE, attempts |-> max_attempts]
    /\ gpc' = "returned"
    /\ UNCHANGED <<max_attempts, min_confidence, confs, best_candidate, best_conf,
                   fvars, hvars, dvars, svars, avars, tvars>>

InitGenerate ==
    /\ FetchIdle /\ HarvestIdle /\ DiscoverIdle /\ SaveIdle /\ CollectIdle /\ PagesIdle
    /\ max_attempts \in -1..MaxAttempts
    /\ min_confidence \in 0..(MaxLevel + 1)
    /\ gpc = "loop" /\ confs = <<>>
    /\ best_candidate = None /\ best_conf = 0 /\ gresult = NoResult

NextGenerate ==
    \/ \E conf \in Levels : generate_attempt(conf)
    \/ generate_return

SpecGenerate == InitGenerate /\ [][NextGenerate]_vars

(***************************************************************************)
(* Properties of get_page (checked under SpecFetch).                       *)
(***************************************************************************)
Retryable == {500, 502, 503, 504}
LastResponse == history[Len(history)]

\* C3: get_page never raises: whatever statuses and network-level errors
\* answer its requests, the call ends by returning, and what it returns is
\* the body of the final 200 response or the failure value ''.
C3_GetPageNeverRaises ==
    /\ fpc # "raised"
    /\ fpc = "returned" =>
          \/ result = ""
          \/ LastResponse.status = 200 /\ result = LastResponse.body

\* a call whose six requests all met a network error has returned ''
C3_Witness ==
    /\ fpc = "returned" /\ scheme = "https" /\ result = ""
    /\ Len(history) = 6
    /\ \A k \in 1..6 : IsNetworkError(history[k])

\* C4: retry cap: while every attempt is answered by 500, 502, 503 or 504,
\* one get_page call sends at most 6 requests (at most 5 retries); after
\* the sixth it has returned the failure value, and it never returns
\* anything else.
C4_RetryCap ==
    (\A k \in 1..Len(history) : history[k].status \in Retryable) =>
        /\ Len(history) <= 6
        /\ Len(delays) <= 5
        /\ (Len(history) = 6 => fpc = "returned")
        /\ (fpc = "returned" => result = "")

\* five retries were made and the sixth 5xx ended the call
C4_Witness ==
    /\ scheme = "https" /\ fpc = "returned" /\ result = ""
    /\ Len(history) = 6 /\ Len(delays) = 5
    /\ \A k \in 1..6 : history[k].status \in Retryable

C5_Scenario ==
    /\ Len(history) = 5
    /\ \A k \in 1..4 : history[k].status = 503
    /\ history[5].status = 200

C6_NonRetryableOneRequest ==
    (Len(history) >= 1 /\ history[1].status \in (Statuses \ ({200} \cup Retryable))) =>
        /\ Len(history) = 1
        /\ delays = <<>>
        /\ fpc = "returned"
        /\ result = ""

\* the value get_page returns from its except branch
FailureValue == ""
Succeeded == fpc = "returned" /\ LastResponse.status = 200

\* C22: the fetch outcome is tagged: what get_page returns for a successful
\* fetch, one whose body is empty included, differs from what it returns
\* for a failed fetch.
C22_FailureDistinguishable ==
    Succeeded => result # FailureValue

\* a response the policy of the implementation retries where it is mounted
PolicyRetries(r) == IsNetworkError(r) \/ r.status \in status_forcelist(impl)

\* C23: the retry policy governs the fetches of every url scheme: a call
\* never ends on a network error or on a listed status while retries are
\* left, for an http url as for an https url.
C23_PolicyOnEveryScheme ==
    \A k \in 1..Len(history) :
        (PolicyRetries(history[k]) /\ k <= total) =>
            ~(Len(history) = k /\ fpc # "sending")

\* The records one call leaves in scraper.log.  get_page logs once, when it
\* ends (logging.info or logging.error).  Of the adapter's retries only
\* those after a network error are logged at a level the root logger
\* keeps (urllib3: "Retrying ... after connection broken by ..."); a retry
\* after a listed status is logged at DEBUG and dropped.
LogRecords ==
    Cardinality({k \in 1..Len(delays) : IsNetworkError(history[k])})
        + (IF fpc = "returned" THEN 1 ELSE 0)

\* C27: every request attempt of a fetch leaves one log record: a call
\* that has ended after r retries has left r + 1 records.
C27_OneLogRecordPerAttempt ==
    fpc = "returned" => LogRecords = Len(delays) + 1

(***************************************************************************)
(* Properties of the harvest operations (checked under SpecHarvest).       *)
(***************************************************************************)
Items == 1..Len(futures)
Ended == mpc \in {"returned", "raised"}
\* the submit loop ran to its end: every work item of the call was submitted
AllSubmitted == root > urls
\* work items that failed: the fetch failed or the extraction raised
FailedItems == {i \in Items : futures[i].st = "done" /\ futures[i].fetch # "ok"}
InQuotes(rec) == \E k \in 1..Len(quotes) : quotes[k] = rec
ItemsOf(r) == {i \in Items : futures[i].root = r}

RECURSIVE SumRecs(_)
SumRecs(n) ==
    IF n = 0 THEN 0
    ELSE PageRecs(futures[n].root, futures[n].page) + SumRecs(n - 1)

\* C1: failure isolation: when a harvest has submitted its N work items and
\* exactly one of them failed (its fetch failed or its extraction raised),
\* the harvest returns, and the result holds every record of the other
\* N-1 work items.
C1_FailureIsolation ==
    (Ended /\ AllSubmitted /\ Cardinality(FailedItems) = 1) =>
        /\ mpc = "returned"
        /\ \A i \in Items \ FailedItems :
              \A k \in 1..Len(futures[i].out.recs) : InQuotes(futures[i].out.recs[k])

\* C2: a work item whose fetch failed contributes no record to the result:
\* no record of quotes comes from a page whose get_page returned ''.
C2_FailedFetchNoRecord ==
    \A k \in 1..Len(quotes) :
        ~\E i \in Items :
            /\ futures[i].fetch = "fail"
            /\ futures[i].root = quotes[k].root
            /\ futures[i].page = quotes[k].page

\* C7: the number of records a harvest returns is at most the sum of the
\* records its pages hold, and equals it when no fetch failed.
C7_CountIsSumOverPages ==
    mpc = "returned" =>
        /\ Len(quotes) <= SumRecs(Len(futures))
        /\ (\A i \in Items : futures[i].fetch # "fail") =>
               Len(quotes) = SumRecs(Len(futures))

\* C8: range expansion clamps the end page: once a root of a listing with P
\* pages is expanded (by AzQuoteScraper after a discovery that read P, or
\* by GoodReadsScraper), exactly max(0, min(end_page, P) - start_page + 1)
\* work items were submitted for it.
C8_RangeClampedToPageCount ==
    \A r \in 1..urls :
        (/\ op \in RangeOps
         /\ root > r
         /\ (op = "az_many" => found[r] = site.pages[r])) =>
            Cardinality(ItemsOf(r))
                = Max(0, Min(end_page, site.pages[r]) - start_page + 1)

\* C9: concurrency bound: at every moment of a harvest at most max_workers
\* get_page calls are in flight, the pool workers' page fetches and the
\* discovery fetches counted together.
C9_AtMostKInFlight == InFlight <= max_workers

\* C10: join-all: when a harvest has returned or raised, every work item it
\* submitted has completed; none is queued or running.
C10_JoinAll == Ended => AllDone

\* a harvest raised while other work items were still to complete, and
\* left only after they had
C10_Witness ==
    /\ mpc = "raised"
    /\ Len(futures) >= 2
    /\ AllDone
    /\ \E i \in Items : ~futures[i].taken

\* C11: a harvest run completes by returning the records it could gather,
\* whatever subset of its pages is down or malformed: it never ends in an
\* exception, and what it returns holds the records of every work item
\* whose page was fetched and extracted.
C11_HarvestReturnsWhatItGathered ==
    /\ mpc # "raised"
    /\ mpc = "returned" =>
          \A i \in Items : futures[i].fetch = "ok" =>
              \A k \in 1..Len(futures[i].out.recs) : InQuotes(futures[i].out.recs[k])

\* C12: failure manifest: when a harvest returns, the number of failures
\* it recorded equals the number of submitted work items whose fetch or
\* extraction failed; a run without a failed work item records 0 failures.
C12_FailureManifest ==
    mpc = "returned" => errlog = Cardinality(FailedItems)

\* what the callable of work item i yields, given what its fetch met
ExpectedOut(i) == Task(op, futures[i].root, futures[i].page, futures[i].fetch)
Count(rec, seq) == Cardinality({k \in 1..Len(seq) : seq[k] = rec})
ExpectedCount(rec) ==
    Cardinality({ik \in Items \X (1..Max(1, MaxRecs)) :
                    /\ ik[2] <= Len(ExpectedOut(ik[1]).recs)
                    /\ ExpectedOut(ik[1]).recs[ik[2]] = rec})
KnownRecs ==
    {quotes[k] : k \in 1..Len(quotes)}
        \cup {Record(futures[i].root, futures[i].page, k) : i \in Items, k \in 0..MaxRecs}

\* C16: against an unchanged source (every page answers its fetch the same
\* way) the outcome of a harvest does not depend on the interleaving of
\* worker starts and completions: it raises exactly when some work item's
\* callable raises, and otherwise the multiset of records returned is the
\* multiset union of what the work items yield.
C16_ResultIndependentOfInterleaving ==
    (Ended /\ AllSubmitted) =>
        IF \E i \in Items : ExpectedOut(i).exc
        THEN mpc = "raised"
        ELSE /\ mpc = "returned"
             /\ \A rec \in KnownRecs : Count(rec, quotes) = ExpectedCount(rec)

\* a harvest returned records in an order other than the submission order
C16_Witness ==
    /\ mpc = "returned"
    /\ Len(futures) >= 2
    /\ Len(quotes) >= 2
    /\ quotes[1].root = futures[Len(futures)].root
    /\ quotes[1].page = futures[Len(futures)].page
    /\ quotes[Len(quotes)].root = futures[1].root
    /\ quotes[Len(quotes)].page = futures[1].page

\* the pages the call submits for root r, from its arguments and from what
\* pagination discovery returned
ExpectedPages(r) ==
    CASE op = "gr_many" -> start_page..end_page
      [] op = "az_many" -> start_page..ClampedEnd(found[r])
      [] op = "az_authors" -> 1..found[r]
      [] OTHER -> {1}
SubmittedOnce ==
    /\ \A i, j \in Items :
          (futures[i].root = futures[j].root /\ futures[i].page = futures[j].page) => i = j
    /\ \A r \in 1..urls :
          root > r => {futures[i].page : i \in ItemsOf(r)} = ExpectedPages(r)
\* get_page calls of pagination discovery on the url of page p of root r:
\* scrape_authors discovers on .../authors/{letter}/1, the url of page 1
DiscoveryFetches(r, p) ==
    IF op = "az_authors" /\ p = 1 /\ (root > r \/ (root = r /\ mpc # "expand")) THEN 1 ELSE 0
PageFetches(i) == futures[i].calls + DiscoveryFetches(futures[i].root, futures[i].page)

\* C17 (as stated): each work item is submitted exactly once and its page
\* is fetched by at most one get_page call of the harvest.
C17_PageFetchedAtMostOnce ==
    /\ SubmittedOnce
    /\ \A i \in Items : PageFetches(i) <= 1

\* C17 (amended): each work item is submitted exactly once and its callable,
\* with its one get_page call, is started at most once whatever its
\* outcome; the only other fetch of a work item's url is the discovery
\* fetch scrape_authors makes on page 1 of each letter.
C17_WorkItemRunAtMostOnce ==
    /\ SubmittedOnce
    /\ \A i \in Items :
          /\ futures[i].calls = (IF futures[i].st = "queued" THEN 0 ELSE 1)
          /\ PageFetches(i) <= 1 + (IF op = "az_authors" /\ futures[i].page = 1 THEN 1 ELSE 0)

\* a harvest ended in which a work item's fetch failed and was not repeated,
\* and in which page 1 of an author letter was fetched twice
C17_Witness ==
    /\ Ended /\ AllSubmitted
    /\ \E i \in Items : futures[i].fetch = "fail" /\ futures[i].calls = 1
    /\ \E i \in Items : PageFetches(i) = 2

IndexOps == {"az_authors", "az_topics"}
\* C18: index expansion: once a letter whose listing has P pages is
\* expanded (by scrape_authors after a discovery that read P, or by
\* scrape_topics), exactly one work item was submitted for each page 1..P
\* of the letter and none for another page; when every letter is expanded
\* the number of work items is the sum of the letters' page counts.
C18_IndexExpansion ==
    (/\ op \in IndexOps
     /\ op = "az_authors" => \A r \in 1..Len(found) : found[r] = site.pages[r])
    =>
    /\ \A r \in 1..urls :
          root > r =>
             /\ {futures[i].page : i \in ItemsOf(r)} = 1..site.pages[r]
             /\ Cardinality(ItemsOf(r)) = site.pages[r]
    /\ AllSubmitted => Len(futures) = SumPages(site.pages, urls)

\* the position in quotes at which the records of work item i begin, if
\* they are there in one piece
InOnePiece(i) ==
    \E off \in 0..Len(quotes) :
        /\ off + Len(futures[i].out.recs) <= Len(quotes)
        /\ \A k \in 1..Len(futures[i].out.recs) : quotes[off + k] = futures[i].out.recs[k]

\* C19: appends to the accumulator are safe under every interleaving: at
\* every moment the accumulator holds the records of each work item whose
\* result was collected exactly once and in one piece, and nothing else.
C19_AppendsAreSafe ==
    /\ \A i \in Items :
          (futures[i].taken /\ ~futures[i].out.exc) =>
              /\ InOnePiece(i)
              /\ \A k \in 1..Len(futures[i].out.recs) :
                    Count(futures[i].out.recs[k], quotes) = 1
    /\ \A k \in 1..Len(quotes) :
          \E i \in Items :
              /\ futures[i].taken /\ ~futures[i].out.exc
              /\ \E j \in 1..Len(futures[i].out.recs) : futures[i].out.recs[j] = quotes[k]

\* two workers ran at once and completed, and the results of three work
\* items were collected, the last submitted first
C19_Witness ==
    /\ mpc = "returned"
    /\ Len(futures) >= 3
    /\ Len(quotes) >= 3
    /\ \A i \in Items : futures[i].fetch = "ok"
    /\ quotes[1].page = futures[Len(futures)].page
    /\ quotes[1].root = futures[Len(futures)].root

\* C25: in scrape_many_pages and scrape_authors of AzQuoteScraper,
\* pagination discovery runs exactly once for each listing root the call
\* comes to, it has returned before any work item of that root is
\* submitted, and it is not run again while the root's work items are
\* submitted.
C25_DiscoveryOncePerRoot ==
    op \in DiscoverOps =>
        /\ Len(found) = root - 1 + (IF mpc = "submit" THEN 1 ELSE 0)
        /\ \A i \in Items : futures[i].root <= Len(found)
        /\ discovering => ItemsOf(root) = {}

\* a harvest of two roots returned: two discoveries, work items of both
C25_Witness ==
    /\ op \in DiscoverOps /\ mpc = "returned"
    /\ urls = 2 /\ Len(found) = 2
    /\ ItemsOf(1) # {} /\ ItemsOf(2) # {}

\* C26: pagination discovery and page fetches are both run by pool workers:
\* every get_page call in flight during a harvest is a worker's, the thread
\* that called the harvest has none of its own.
C26_CallerNeverFetches ==
    InFlight = Cardinality(Running)

(***************************************************************************)
(* Properties of __find_num_of_pages (checked under SpecDiscover).         *)
(***************************************************************************)
DiscoverEnded == dpc \in {"returned", "raised"}
LastToken == split_last(ddoc.text)

\* C13: pagination discovery fails open: when the fetch of the listing url
\* fails, __find_num_of_pages returns 1 and does not raise, whatever
\* document the server holds.
C13_DiscoveryFailsOpen ==
    (DiscoverEnded /\ dfetch = "fail") => (dpc = "returned" /\ dnum = 1)

\* the fetch failed on a listing whose pager reads 33 pages; 1 was returned
C13_Witness ==
    /\ dpc = "returned" /\ dfetch = "fail" /\ dnum = 1
    /\ ddoc.span /\ IsInt(LastToken) /\ int(LastToken) = 33

\* C14: pagination discovery returns 1 and never raises when the listing
\* page has no pager element, and when the pager cannot be parsed as a page
\* count: last token not a number, or a pager without its inner span.
C14_UnparsablePagerGivesOne ==
    (/\ DiscoverEnded /\ dfetch = "ok"
     /\ \/ ~ddoc.pager
        \/ ~ddoc.span
        \/ ~IsInt(LastToken))
    => (dpc = "returned" /\ dnum = 1)

\* C15: the page count returned by pagination discovery is an integer >= 1
\* for every listing document, a pager whose last token parses to 0 or to a
\* negative integer included.
C15_PageCountAtLeastOne ==
    dpc = "returned" => dnum >= 1

(***************************************************************************)
(* Properties of _save (checked under SpecSave).                           *)
(***************************************************************************)
SaveEnded == spc \in {"returned", "raised"}
WroteOne(fmt) == spc = "returned" /\ Len(swritten) = 1 /\ swritten[1].format = fmt

\* C20: _save chooses the serialization from the extension of the filename
\* it is given: json is written as JSON text, pkl as a pickle, and for any
\* other extension the call raises and writes no file.
C20_FormatFollowsExtension ==
    SaveEnded =>
        /\ ext(sname) = <<"json">> => WroteOne("json")
        /\ ext(sname) = <<"pkl">> => WroteOne("pickle")
        /\ ext(sname) \notin {<<"json">>, <<"pkl">>} => (spc = "raised" /\ swritten = <<>>)

(***************************************************************************)
(* Properties of the harvest operations with saving (SpecHarvestSave).     *)
(***************************************************************************)
AllTaken == \A i \in Items : futures[i].taken

\* C21: a persistence error is fatal to the save only: when a harvest run
\* with save enabled has gathered its records and _save raises, the harvest
\* still returns the records to its caller.
C21_SaveErrorNotFatal ==
    (save_arg /\ spc = "raised") => mpc # "raised"

\* C28: persistence happens at most once per harvest and only at the end:
\* a file is written only by a harvest with save enabled, after every work
\* item has completed and been aggregated, and never more than one; a
\* harvest that returned with save enabled wrote exactly one file, one with
\* save disabled wrote none; no step of a pool worker writes a file.
C28_SavedOnceAtTheEnd ==
    /\ Len(swritten) <= 1
    /\ swritten # <<>> => (save_arg /\ Ended /\ AllSubmitted /\ AllDone /\ AllTaken)
    /\ (mpc = "returned" /\ save_arg) => Len(swritten) = 1
    /\ ~save_arg => swritten = <<>>

\* a harvest of two work items, run on two workers, returned after saving
C28_Witness ==
    /\ mpc = "returned" /\ save_arg
    /\ Len(futures) = 2 /\ Len(quotes) >= 2
    /\ Len(swritten) = 1 /\ swritten[1].format = "pickle"

(***************************************************************************)
(* Properties of the aggregation loop (checked under SpecCollect).         *)
(***************************************************************************)
CompletedBefore(a, b) ==
    \E j, k \in 1..Len(adone) : j < k /\ adone[j] = a /\ adone[k] = b
AppendedBefore(a, b) ==
    \A j, k \in 1..Len(aquotes) :
        (aquotes[j].item = a /\ aquotes[k].item = b) => j < k
Contiguous(a) ==
    \A j, k \in 1..Len(aquotes) :
        (j < k /\ aquotes[j].item = a /\ aquotes[k].item = a) =>
            \A l \in j..k : aquotes[l].item = a

\* C24: results are aggregated in completion order: when work item a
\* completed before work item b, the records of a are appended before the
\* records of b, whether they completed before or after the aggregation
\* started; the records of one work item stay contiguous.
C24_CompletionOrder ==
    /\ \A a, b \in YieldedSet : CompletedBefore(a, b) => AppendedBefore(a, b)
    /\ \A a \in YieldedSet : Contiguous(a)

(***************************************************************************)
(* Properties of generate_page (checked under SpecPages).                  *)
(***************************************************************************)
\* the url of page k of the listing url: url with the site's page query
PageUrl(url, k) ==
    [url EXCEPT !.query = [param |-> IF url.host = "goodreads" THEN "page" ELSE "p",
                           value |-> str(k)]]

\* C29: generate_page(url) raises NotImplementedError for a url of neither
\* supported site; for a goodreads or azquotes url its k-th element is the
\* url of page k of the same listing, the listing url with ?page=k
\* (goodreads) or ?p=k (azquotes), k = 1, 2, 3, ...
C29_KthElementIsPageK ==
    /\ turl.host = "other" => tyielded = <<>>
    /\ (turl.host = "other" /\ tpc # "created") => tpc = "raised"
    /\ turl.host # "other" =>
          /\ tpc # "raised"
          /\ \A k \in 1..Len(tyielded) : tyielded[k] = PageUrl(turl, k)

(***************************************************************************)
(* Properties of QuoteGenerator.generate (checked under SpecGenerate).     *)
(***************************************************************************)
Reached == {k \in 1..Len(confs) : confs[k] >= min_confidence}

\* C30: generate makes at most max_attempts generation attempts (none when
\* max_attempts <= 0) and stops at the first attempt whose confidence is
\* >= min_confidence: it then returns accepted = True, attempts = the
\* index of that attempt, and that attempt's quote and confidence.  It
\* returns accepted = False with attempts = max_attempts exactly when no
\* attempt reached min_confidence.
C30_StopsAtFirstAccepted ==
    /\ Len(confs) <= Max(0, max_attempts)
    /\ \A k \in Reached : k = Len(confs)
    /\ gpc = "returned" =>
          IF Reached # {}
          THEN /\ gresult.accepted
               /\ gresult.attempts = Len(confs)
               /\ gresult.quote = Len(confs)
               /\ gresult.confidence = confs[Len(confs)]
          ELSE /\ ~gresult.accepted
               /\ gresult.attempts = max_attempts
               /\ Len(confs) = Max(0, max_attempts)
    /\ Reached # {} => gpc = "returned"

\* the second of three allowed attempts was the first to reach the
\* threshold and was returned
C30_Witness ==
    /\ gpc = "returned" /\ max_attempts = 3
    /\ Len(confs) = 2 /\ confs[1] < min_confidence
    /\ gresult.accepted /\ gresult.attempts = 2

RECURSIVE MaxConf(_)
MaxConf(n) == IF n = 0 THEN 0 ELSE Max(confs[n], MaxConf(n - 1))
\* the /generate response model declares quote: str
IsString(quote) == quote # None

\* C31: when generate returns accepted = False, the confidence returned is
\* the largest confidence of the attempts made and the quote returned is
\* the candidate that achieved it; and for every request, max_attempts <= 0
\* and runs whose attempts all have confidence 0 included, the quote
\* returned is a string.
C31_BestCandidateIsString ==
    gpc = "returned" =>
        /\ IsString(gresult.quote)
        /\ ~gresult.accepted =>
              /\ gresult.confidence = MaxConf(Len(confs))
              /\ confs # <<>> =>
                    /\ gresult.quote \in 1..Len(confs)
                    /\ confs[gresult.quote] = gresult.confidence

=============================================================================
